---- MODULE Spec2Model ----
(***************************************************************************)
(* The ordering / reconciliation state machine of the to-do list:          *)
(* TodoSection (src/src/todo/TodoList.js:16-154) and the filter stage of   *)
(* TodoList (src/src/todo/TodoList.js:160-212).                            *)
(*                                                                         *)
(* JavaScript arrays are modelled as sequences; array indices are kept     *)
(* 0-based as in the source (At, Slice, FindIndex convert).  Every handler *)
(* is one action: the state updates it queues, the re-render, and the      *)
(* effects that the re-render triggers.                                    *)
(***************************************************************************)
EXTENDS Integers, Sequences, FiniteSets, TLC

VARIABLES
    props,      \* TodoList props: [list : Item[], filter : Filter]
    filtered,   \* TodoList useMemo value: [rendered, value]
    sec,        \* mounted TodoSection instances: name -> [list, ordering, dragging, mounted]
    cookies,    \* CookieContext key-value store: cookie key -> [present, value]
    last        \* the handler (and branch) that ran last

vars == <<props, filtered, sec, cookies, last>>

---------------------------------------------------------------------------
(* Bounds *)

\* item keys are 0 .. NumKeys-1
NumKeys == 3
\* longest props.list handed to TodoList
MaxItems == 2
\* longest filter.words
MaxWords == 2
\* longest props.list handed to TodoList when its two sections are followed
MaxListItems == 3

Keys == 0 .. (NumKeys - 1)

---------------------------------------------------------------------------
(* JavaScript values *)

\* null, as in useState(null): no drag in progress
Null == -2

\* Array.prototype.findIndex: nothing found
NotFound == -1

\* reading an array element that does not exist: an entry without a key
Undefined == [key |-> Null, draggable |-> FALSE]

\* `if (x)` for x a number or null
Truthy(x) == x # Null /\ x # 0

Min(a, b) == IF a < b THEN a ELSE b
Max(a, b) == IF a > b THEN a ELSE b

\* a[i], 0-based
At(a, i) == IF i >= 0 /\ i < Len(a) THEN a[i + 1] ELSE Undefined

\* Array.prototype.slice(start, end): negative indices count from the end
SliceIndex(i, len) == IF i < 0 THEN Max(len + i, 0) ELSE Min(i, len)

Slice(a, start, end) ==
    LET from == SliceIndex(start, Len(a))
        to   == SliceIndex(end, Len(a))
    IN  IF from >= to THEN <<>> ELSE SubSeq(a, from + 1, to)

SliceFrom(a, start) == Slice(a, start, Len(a))

\* ordering.findIndex((ord) => ord.key === key)
FindIndex(a, key) ==
    IF \E i \in 1 .. Len(a) : a[i].key = key
    THEN (CHOOSE i \in 1 .. Len(a) :
             /\ a[i].key = key
             /\ \A j \in 1 .. (i - 1) : a[j].key # key) - 1
    ELSE NotFound

\* array.map
RECURSIVE MapKeys(_)
MapKeys(a) == IF a = <<>> THEN <<>> ELSE <<a[1].key>> \o MapKeys(Tail(a))

\* (key) => ({ key, draggable: false })
Entry(k) == [key |-> k, draggable |-> FALSE]

RECURSIVE MapEntries(_)
MapEntries(ks) == IF ks = <<>> THEN <<>> ELSE <<Entry(ks[1])>> \o MapEntries(Tail(ks))

---------------------------------------------------------------------------
(* Persistence bridge: cookies.get / cookies.set *)

SectionNames == {"in-progress", "completed"}

\* the fixed prefix imported from ../misc/cookies
ORDER_COOKIE == "order"

\* fault: the section name is left out of the key
order_cookieShared(name) == ORDER_COOKIE \o "-" \o "in-progress"

\* `${ORDER_COOKIE}-${props.name}`
order_cookie(name) == ORDER_COOKIE \o "-" \o name

CookieKeys == {order_cookie(n) : n \in SectionNames}

Absent == [present |-> FALSE, value |-> <<>>]
Present(v) == [present |-> TRUE, value |-> v]

\* cookies?.get(order_cookie)
CookieGet(store, name) == store[order_cookie(name)]

\* fault: the effect never runs again (`ordering` missing from its dependencies)
PersistNever(store, name, ordering) == store

\* useEffect: cookies?.set(order_cookie, ordering.map(({ key }) => key))
Persist(store, name, ordering) ==
    [store EXCEPT ![order_cookie(name)] = Present(MapKeys(ordering))]

---------------------------------------------------------------------------
(* Order store of one TodoSection *)

\* fault: the cookie is not read
InitOrderingIgnoreCookie(store, name, list) == MapEntries(MapKeys(list))

\* useState initializer of `ordering`
InitOrdering(store, name, list) ==
    LET ordering == CookieGet(store, name)
    IN  IF ordering.present
        THEN MapEntries(ordering.value)
        ELSE MapEntries(MapKeys(list))

\* the state of a TodoSection after its useState initializers, before its
\* effects have run
InitSection(store, name, list) ==
    [ list     |-> list,
      ordering |-> InitOrdering(store, name, list),
      dragging |-> Null,
      mounted  |-> FALSE ]

\* fault: no test for entries that exist already
ReconcileAppendAll(ordering, list) == ordering \o MapEntries(MapKeys(list))

\* fault: new entries are put in front
ReconcileFront(ordering, list) ==
    LET Fresh(item) == \A i \in 1 .. Len(ordering) : item.key # ordering[i].key
    IN  MapEntries(MapKeys(SelectSeq(list, Fresh))) \o ordering

\* fault: entries whose item is gone are dropped
ReconcilePrune(ordering, list) ==
    LET Fresh(item) == \A i \in 1 .. Len(ordering) : item.key # ordering[i].key
        Kept(ord)   == \E i \in 1 .. Len(list) : list[i].key = ord.key
    IN  SelectSeq(ordering, Kept) \o MapEntries(MapKeys(SelectSeq(list, Fresh)))

\* fault: the entries of the current items are put back in upstream order
ReconcileListOrder(ordering, list) ==
    LET Kept(ord)  == \E i \in 1 .. Len(list) : list[i].key = ord.key
        Known(item) == \E i \in 1 .. Len(ordering) : item.key = ordering[i].key
        Gone(ord)  == ~Kept(ord)
        Fresh(item) == ~Known(item)
        OldEntry(item) == ordering[CHOOSE i \in 1 .. Len(ordering) : ordering[i].key = item.key]
        known == SelectSeq(list, Known)
    IN  [i \in 1 .. Len(known) |-> OldEntry(known[i])]
            \o SelectSeq(ordering, Gone)
            \o MapEntries(MapKeys(SelectSeq(list, Fresh)))

\* useLayoutEffect updater: append the items of props.list that have no entry
Reconcile(ordering, list) ==
    LET Fresh(item) == \A i \in 1 .. Len(ordering) : item.key # ordering[i].key
    IN  ordering \o MapEntries(MapKeys(SelectSeq(list, Fresh)))

\* fault: index -1 counts from the end, as in slice
setDraggableWrap(ordering, key, value) ==
    LET index == FindIndex(ordering, key)
        at    == IF index = NotFound THEN Len(ordering) ELSE index + 1
    IN  IF at = 0
        THEN ordering
        ELSE [ordering EXCEPT ![at] = [@ EXCEPT !.draggable = value]]

\* setOrderableField('draggable') updater
setDraggable(ordering, key, value) ==
    LET index == FindIndex(ordering, key)
    IN  IF index = NotFound
        THEN ordering    \* newOrdering[-1] = ... adds no element
        ELSE [ordering EXCEPT ![index + 1] = [@ EXCEPT !.draggable = value]]

\* getOrder
getOrder(ordering, key) == FindIndex(ordering, key)

\* fault: the two entries are exchanged
setOrderSwap(rendered, ordering, key, newIndex) ==
    LET oldIndex == FindIndex(rendered, key)
    IN  IF newIndex = oldIndex \/ oldIndex = NotFound \/ newIndex = NotFound
        THEN ordering
        ELSE [ordering EXCEPT ![oldIndex + 1] = ordering[newIndex + 1],
                              ![newIndex + 1] = ordering[oldIndex + 1]]

\* fault: the upward slice starts at oldIndex instead of oldIndex + 1
setOrderDup(rendered, ordering, key, newIndex) ==
    LET oldIndex == FindIndex(rendered, key)
    IN  IF newIndex < oldIndex
        THEN Slice(ordering, 0, newIndex)
                \o <<At(ordering, oldIndex)>>
                \o Slice(ordering, newIndex, oldIndex)
                \o SliceFrom(ordering, oldIndex + 1)
        ELSE IF newIndex > oldIndex
        THEN Slice(ordering, 0, oldIndex)
                \o Slice(ordering, oldIndex, newIndex)
                \o <<At(ordering, oldIndex)>>
                \o SliceFrom(ordering, newIndex + 1)
        ELSE ordering

\* fault: the entry is put back behind the target row
setOrderAfter(rendered, ordering, key, newIndex) ==
    LET oldIndex == FindIndex(rendered, key)
        rest     == Slice(ordering, 0, oldIndex) \o SliceFrom(ordering, oldIndex + 1)
    IN  Slice(rest, 0, newIndex + 1)
            \o <<At(ordering, oldIndex)>>
            \o SliceFrom(rest, newIndex + 1)

\* setOrder: oldIndex comes from the rendered `ordering`, the updaters run on
\* the current one; a handler always sees the latest render, so the two agree
setOrder(rendered, ordering, key, newIndex) ==
    LET oldIndex == FindIndex(rendered, key)
    IN  IF newIndex < oldIndex
        THEN Slice(ordering, 0, newIndex)
                \o <<At(ordering, oldIndex)>>
                \o Slice(ordering, newIndex, oldIndex)
                \o SliceFrom(ordering, oldIndex + 1)
        ELSE IF newIndex > oldIndex
        THEN Slice(ordering, 0, oldIndex)
                \o Slice(ordering, oldIndex + 1, newIndex + 1)
                \o <<At(ordering, oldIndex)>>
                \o SliceFrom(ordering, newIndex + 1)
        ELSE ordering

\* fault: the rows follow props.list instead of ordering
RowsInListOrder(s) ==
    LET Known(item) == \E i \in 1 .. Len(s.ordering) : s.ordering[i].key = item.key
        OldEntry(item) ==
            s.ordering[CHOOSE i \in 1 .. Len(s.ordering) : s.ordering[i].key = item.key]
        known == SelectSeq(s.list, Known)
    IN  [i \in 1 .. Len(known) |-> OldEntry(known[i])]

\* the `list` memo: ordering joined with props.list; one row per entry whose
\* item is found
Rows(s) ==
    LET Found(order) == \E i \in 1 .. Len(s.list) : s.list[i].key = order.key
    IN  SelectSeq(s.ordering, Found)

RowKeys(s) == {Rows(s)[i].key : i \in 1 .. Len(Rows(s))}

---------------------------------------------------------------------------
(* Items and the filter stage of TodoList *)

Labels == {"red", "green"}

\* filter.label is null
NoLabel == "null"

Char == {"a", "b", "A", "B"}

\* String.prototype.toLowerCase, one character
LowerChar(c) == IF c = "A" THEN "a" ELSE IF c = "B" THEN "b" ELSE c

RECURSIVE toLowerCase(_)
toLowerCase(str) ==
    IF str = <<>> THEN <<>> ELSE <<LowerChar(str[1])>> \o toLowerCase(Tail(str))

\* String.prototype.includes
includes(str, word) ==
    \E i \in 0 .. (Len(str) - Len(word)) : SubSeq(str, i + 1, i + Len(word)) = word

\* filter by label
LabelPass(item, filter) ==
    filter.label = NoLabel \/ filter.label \in item.labels

\* filter by search
SearchPass(item, filter) ==
    LET desc == toLowerCase(item.description)
    IN  \A i \in 1 .. Len(filter.words) : includes(desc, filter.words[i])

\* fault: words.some instead of words.every
FilteredSomeWord(list, filter) ==
    LET desc(item)     == toLowerCase(item.description)
        ByLabel(item)  == LabelPass(item, filter)
        BySearch(item) ==
            \/ filter.words = <<>>
            \/ \E i \in 1 .. Len(filter.words) : includes(desc(item), filter.words[i])
    IN  SelectSeq(SelectSeq(list, ByLabel), BySearch)

\* the `filtered` memo
Filtered(list, filter) ==
    LET ByLabel(item)  == LabelPass(item, filter)
        BySearch(item) == SearchPass(item, filter)
    IN  SelectSeq(SelectSeq(list, ByLabel), BySearch)

\* list={filtered.filter((item) => !item.status)} / {filtered.filter((item) => item.status)}
SectionList(value, name) ==
    LET InProgress(item) == ~item.status
        Completed(item)  == item.status
    IN  IF name = "in-progress"
        THEN SelectSeq(value, InProgress)
        ELSE SelectSeq(value, Completed)

---------------------------------------------------------------------------
(* Input sets *)

\* all sequences without repetition over S
DistinctSeqs(S) ==
    UNION { { q \in [1 .. n -> S] : \A i, j \in 1 .. n : i # j => q[i] # q[j] } :
            n \in 0 .. Cardinality(S) }

RECURSIVE MapItems(_, _)
MapItems(ks, name) ==
    IF ks = <<>> THEN <<>>
    ELSE <<[ key         |-> ks[1],
             description |-> <<"a">>,
             status      |-> (name = "completed"),
             labels      |-> {} ]>> \o MapItems(Tail(ks), name)

\* the upstream collection keeps its items in one order, newest (highest key)
\* first; whatever is added, deleted, toggled or filtered, a section is handed
\* a subsequence of it
RECURSIVE Upstream(_)
Upstream(S) ==
    IF S = {} THEN <<>>
    ELSE LET newest == CHOOSE k \in S : \A j \in S : j <= k
         IN  <<newest>> \o Upstream(S \ {newest})

\* the lists a section can be handed: items with distinct keys
SectionLists ==
    [name \in SectionNames |-> { MapItems(Upstream(S), name) : S \in SUBSET Keys }]

\* what an earlier instance of the section can have left in its cookie
PersistedValues == {Absent} \cup { Present(ks) : ks \in DistinctSeqs(Keys) }

NoProps == [list |-> <<>>, filter |-> [words |-> <<>>, label |-> NoLabel]]
NotRendered == [rendered |-> FALSE, value |-> <<>>]

---------------------------------------------------------------------------
(* One TodoSection, mounted on its own *)

\* the section that is mounted on its own
Standalone == "in-progress"

Init ==
    \E c \in PersistedValues, L \in SectionLists[Standalone] :
        /\ cookies = [k \in CookieKeys |->
                          IF k = order_cookie(Standalone) THEN c ELSE Absent]
        /\ sec = (Standalone :> InitSection(cookies, Standalone, L))
        /\ props = NoProps
        /\ filtered = NotRendered
        /\ last = "init"

\* first commit: the layout effect reconciles, the effect persists
MountEffects(n) ==
    /\ ~sec[n].mounted
    /\ LET ordering == Reconcile(sec[n].ordering, sec[n].list)
       IN  /\ sec' = [sec EXCEPT ![n].ordering = ordering, ![n].mounted = TRUE]
           /\ cookies' = Persist(cookies, n, ordering)
           /\ last' = IF ordering = sec[n].ordering THEN "mount" ELSE "mount:append"
    /\ UNCHANGED <<props, filtered>>

\* re-render with a new props.list: the layout effect reconciles, the effect persists
Render(n, L) ==
    /\ sec[n].mounted
    /\ LET ordering == Reconcile(sec[n].ordering, L)
       IN  /\ sec' = [sec EXCEPT ![n].list = L, ![n].ordering = ordering]
           /\ cookies' = Persist(cookies, n, ordering)
           /\ last' = IF ordering = sec[n].ordering THEN "render" ELSE "render:append"
    /\ UNCHANGED <<props, filtered>>

\* onDragDown={() => setDraggable(item.key, true)}
onDragDown(n, k) ==
    /\ sec[n].mounted
    /\ k \in RowKeys(sec[n])
    /\ LET ordering == setDraggable(sec[n].ordering, k, TRUE)
       IN  /\ sec' = [sec EXCEPT ![n].ordering = ordering]
           /\ cookies' = Persist(cookies, n, ordering)
    /\ last' = "onDragDown"
    /\ UNCHANGED <<props, filtered>>

\* onDragUp
onDragUp(n, k) ==
    /\ sec[n].mounted
    /\ k \in RowKeys(sec[n])
    /\ IF ~Truthy(sec[n].dragging)
       THEN LET ordering == setDraggable(sec[n].ordering, k, FALSE)
            IN  /\ sec' = [sec EXCEPT ![n].ordering = ordering]
                /\ cookies' = Persist(cookies, n, ordering)
                /\ last' = "onDragUp"
       ELSE /\ UNCHANGED <<sec, cookies>>
            /\ last' = "onDragUp:dragging"
    /\ UNCHANGED <<props, filtered>>

\* onDragStart={() => setDragging(item.key)}
onDragStart(n, k) ==
    /\ sec[n].mounted
    /\ k \in RowKeys(sec[n])
    /\ sec' = [sec EXCEPT ![n].dragging = k]
    /\ last' = "onDragStart"
    /\ UNCHANGED <<props, filtered, cookies>>

\* fault: the drag is cleared but the row's flag is not reset
onDragEndKeepsFlag(n, k) ==
    /\ sec[n].mounted
    /\ k \in RowKeys(sec[n])
    /\ sec' = [sec EXCEPT ![n].dragging = Null]
    /\ last' = "onDragEnd"
    /\ UNCHANGED <<props, filtered, cookies>>

\* onDragEnd
onDragEnd(n, k) ==
    /\ sec[n].mounted
    /\ k \in RowKeys(sec[n])
    /\ LET ordering == setDraggable(sec[n].ordering, k, FALSE)
       IN  /\ sec' = [sec EXCEPT ![n].dragging = Null, ![n].ordering = ordering]
           /\ cookies' = Persist(cookies, n, ordering)
    /\ last' = "onDragEnd"
    /\ UNCHANGED <<props, filtered>>

\* onDragEnter
onDragEnter(n, k) ==
    /\ sec[n].mounted
    /\ k \in RowKeys(sec[n])
    /\ IF Truthy(sec[n].dragging)
       THEN LET newIndex == getOrder(sec[n].ordering, k)
                oldIndex == FindIndex(sec[n].ordering, sec[n].dragging)
                ordering == setOrder(sec[n].ordering, sec[n].ordering,
                                     sec[n].dragging, newIndex)
            IN  /\ sec' = [sec EXCEPT ![n].ordering = ordering]
                /\ cookies' = IF newIndex = oldIndex
                              THEN cookies
                              ELSE Persist(cookies, n, ordering)
                /\ last' = IF newIndex < oldIndex THEN "setOrder:down"
                           ELSE IF newIndex > oldIndex THEN "setOrder:up"
                           ELSE "setOrder:same"
       ELSE /\ UNCHANGED <<sec, cookies>>
            /\ last' = "onDragEnter:idle"
    /\ UNCHANGED <<props, filtered>>

\* page reload: the section is created again from its cookie
Reload(n) ==
    /\ sec[n].mounted
    /\ sec' = [sec EXCEPT ![n] = InitSection(cookies, n, sec[n].list)]
    /\ last' = "reload"
    /\ UNCHANGED <<props, filtered, cookies>>

Next ==
    \E n \in DOMAIN sec :
        \/ MountEffects(n)
        \/ \E L \in SectionLists[n] : Render(n, L)
        \/ \E k \in Keys :
            \/ onDragDown(n, k)
            \/ onDragUp(n, k)
            \/ onDragStart(n, k)
            \/ onDragEnd(n, k)
            \/ onDragEnter(n, k)
        \/ Reload(n)

Spec == Init /\ [][Next]_vars

---------------------------------------------------------------------------
(* TodoList: the filter stage on its own *)

Descriptions == { <<"A", "b">>, <<"b", "B", "a">> }

Words == { <<"a", "b">>, <<"b", "a">> }

Items(k) ==
    [ key : {k}, description : Descriptions, status : BOOLEAN, labels : SUBSET Labels ]

\* props.list: up to MaxItems items in upstream order
ItemLists ==
    UNION { { q \in [1 .. m -> UNION {Items(k) : k \in Keys}] :
                \A i \in 1 .. m : q[i].key = m - i } :
            m \in 0 .. Min(MaxItems, NumKeys) }

\* props.filter
Filters ==
    [ words : UNION { [1 .. m -> Words] : m \in 0 .. MaxWords },
      label : Labels \cup {NoLabel} ]

InitFilter ==
    /\ props \in [list : ItemLists, filter : Filters]
    /\ filtered = NotRendered
    /\ sec = <<>>
    /\ cookies = [k \in CookieKeys |-> Absent]
    /\ last = "init"

\* first render of TodoList: the `filtered` memo is computed and the two
\* sections are created on their halves of it
TodoListRender ==
    /\ ~filtered.rendered
    /\ LET value == Filtered(props.list, props.filter)
       IN  /\ filtered' = [rendered |-> TRUE, value |-> value]
           /\ sec' = [n \in SectionNames |->
                         InitSection(cookies, n, SectionList(value, n))]
    /\ last' = "TodoList"
    /\ UNCHANGED <<props, cookies>>

NextFilter == TodoListRender

SpecFilter == InitFilter /\ [][NextFilter]_vars

---------------------------------------------------------------------------
(* TodoList with its two sections *)

\* items that differ in their completion flag only
ListItems(k) ==
    [ key : {k}, description : { <<"A", "b">> }, status : BOOLEAN, labels : { {} } ]

ListItemLists ==
    UNION { { q \in [1 .. m -> UNION {ListItems(k) : k \in Keys}] :
                \A i \in 1 .. m : q[i].key = m - i } :
            m \in 0 .. Min(MaxListItems, NumKeys) }

\* no label selected, no search words: every item passes
ListFilters == { [words |-> <<>>, label |-> NoLabel] }

InitList ==
    /\ props \in [list : ListItemLists, filter : ListFilters]
    /\ filtered = NotRendered
    /\ sec = <<>>
    /\ cookies = [k \in CookieKeys |-> Absent]
    /\ last = "init"

\* TodoList renders once; then each section runs its effects and handles the
\* pointer and drag events of its own rows
NextList ==
    \/ TodoListRender
    \/ \E n \in DOMAIN sec :
        \/ MountEffects(n)
        \/ \E k \in Keys :
            \/ onDragDown(n, k)
            \/ onDragUp(n, k)
            \/ onDragStart(n, k)
            \/ onDragEnd(n, k)
            \/ onDragEnter(n, k)

SpecList == InitList /\ [][NextList]_vars

---------------------------------------------------------------------------
(* Vocabulary of the properties *)

KeySet(a) == {a[i].key : i \in 1 .. Len(a)}

\* 1-based position of key k in a sequence of entries or items, 0 if absent
Pos(a, k) == IF k \in KeySet(a) THEN CHOOSE i \in 1 .. Len(a) : a[i].key = k ELSE 0

NoDuplicates(a) == \A i, j \in 1 .. Len(a) : i # j => a[i].key # a[j].key

\* a with its element at 1-based position i left out
Without(a, i) == [j \in 1 .. (Len(a) - 1) |-> IF j < i THEN a[j] ELSE a[j + 1]]

Stale(s) == KeySet(s.ordering) \ KeySet(s.list)

Reconciled == {"mount", "mount:append", "render", "render:append"}
Moved == {"setOrder:down", "setOrder:up"}

---------------------------------------------------------------------------
(* Reconcile *)

\* R is S followed by the keys of L that S lacks, in L's order, not draggable
AppendsOnly(S, L, R) ==
    /\ Len(R) >= Len(S)
    /\ SubSeq(R, 1, Len(S)) = S
    /\ \A i \in (Len(S) + 1) .. Len(R) :
          /\ R[i].draggable = FALSE
          /\ R[i].key \in KeySet(L) \ KeySet(S)
    /\ \A k \in KeySet(L) \ KeySet(S) :
          Cardinality({i \in (Len(S) + 1) .. Len(R) : R[i].key = k}) = 1
    /\ \A i, j \in (Len(S) + 1) .. Len(R) :
          i < j => Pos(L, R[i].key) < Pos(L, R[j].key)

\* C1: a reconcile (at mount or on a new props.list) leaves the store S as a
\* prefix, entries and flags untouched, and appends exactly the identifiers
\* of the list that S lacked, in list order, each with draggable = false.
C1_ReconcileOnlyAppends ==
    [][\A n \in DOMAIN sec :
          last' \in Reconciled =>
              AppendsOnly(sec[n].ordering, sec'[n].list, sec'[n].ordering)]_vars

C1_Witness ==
    \E n \in DOMAIN sec :
        /\ last = "render:append"
        /\ Stale(sec[n]) # {}
        /\ \E i \in 1 .. Len(sec[n].ordering) : sec[n].ordering[i].draggable
        /\ Len(sec[n].list) >= 2

\* C2: reconcile is idempotent: in the state a reconcile with list L has
\* produced, reconciling with L once more changes nothing.
C2_ReconcileIdempotent ==
    \A n \in DOMAIN sec :
        last \in Reconciled =>
            Reconcile(sec[n].ordering, sec[n].list) = sec[n].ordering

C2_Witness ==
    \E n \in DOMAIN sec :
        /\ last = "render:append"
        /\ Len(sec[n].list) >= 2
        /\ Len(sec[n].ordering) > Len(sec[n].list)

---------------------------------------------------------------------------
(* Move *)

\* r is a with the entry of key id taken out and put back at 0-based position p
SingleElementMove(a, id, p, r) ==
    /\ Len(r) = Len(a)
    /\ r[p + 1] = a[Pos(a, id)]
    /\ Without(r, p + 1) = Without(a, Pos(a, id))

\* C3: move is a single-element move, not a swap: for every identifier of the
\* store and every target position within bounds, below or above its current
\* one, the entry ends at the target position and the other entries keep
\* their order; [3,1,2,5] with move(2, 0) gives [2,3,1,5].
C3_MoveSingleElement ==
    /\ \A n \in DOMAIN sec :
          LET a == sec[n].ordering
          IN  \A id \in KeySet(a), p \in 0 .. (Len(a) - 1) :
                  SingleElementMove(a, id, p, setOrder(a, a, id, p))
    /\ LET a == MapEntries(<<3, 1, 2, 5>>)
       IN  MapKeys(setOrder(a, a, 2, 0)) = <<2, 3, 1, 5>>

C3_Witness ==
    \E n \in DOMAIN sec :
        /\ last = "setOrder:down"
        /\ Len(sec[n].ordering) = NumKeys
        /\ sec[n].ordering[1].key = sec[n].dragging
        /\ sec[n].ordering[1].draggable

\* C4: move(id, getPosition(id)) leaves the sequence unchanged, and so does a
\* drag-enter on the row that is being dragged.
C4_MoveToOwnPosition ==
    [][\A n \in DOMAIN sec :
          LET a == sec[n].ordering
          IN  onDragEnter(n, sec[n].dragging) =>
                  /\ sec'[n].ordering = a
                  /\ \A id \in KeySet(a) : setOrder(a, a, id, getOrder(a, id)) = a]_vars

C4_Witness ==
    \E n \in DOMAIN sec :
        /\ last = "setOrder:same"
        /\ Len(sec[n].ordering) >= 2
        /\ sec[n].dragging \in RowKeys(sec[n])

\* C5: a move triggered by a drag-enter keeps the store's identifiers and its
\* length, introduces no undefined and no duplicated entry, and changes the
\* position of the dragged entry only.
C5_MovePreservesMembership ==
    [][\A n \in DOMAIN sec :
          last' \in Moved \cup {"setOrder:same"} =>
              LET a  == sec[n].ordering
                  r  == sec'[n].ordering
                  id == sec[n].dragging
              IN  /\ KeySet(r) = KeySet(a)
                  /\ Len(r) = Len(a)
                  /\ \A i \in 1 .. Len(r) : r[i] # Undefined
                  /\ NoDuplicates(r)
                  /\ Without(r, Pos(r, id)) = Without(a, Pos(a, id))]_vars

C5_Witness ==
    \E n \in DOMAIN sec :
        /\ last = "setOrder:up"
        /\ Len(sec[n].ordering) = NumKeys
        /\ sec[n].ordering[NumKeys].key = sec[n].dragging
        /\ Stale(sec[n]) # {}

---------------------------------------------------------------------------
(* Drag flags *)

Draggable(s) == {i \in 1 .. Len(s.ordering) : s.ordering[i].draggable}

\* C6: at most one entry of a section's store has draggable = true, under any
\* sequence of pointer-down, pointer-up, drag-start, drag-enter and drag-end
\* events on its rows.
C6_AtMostOneDraggable ==
    \A n \in DOMAIN sec : Cardinality(Draggable(sec[n])) <= 1

---------------------------------------------------------------------------
(* Persistence and initialization *)

\* C7: once a handler and its effects have run, the cookie of the section
\* holds the store's whole identifier sequence, in order, stale ones included.
C7_CookieHoldsOrdering ==
    \A n \in DOMAIN sec :
        sec[n].mounted =>
            /\ cookies[order_cookie(n)].present
            /\ cookies[order_cookie(n)].value = [i \in 1 .. Len(sec[n].ordering) |->
                                                    sec[n].ordering[i].key]

C7_Witness ==
    \E n \in DOMAIN sec :
        /\ last \in Moved
        /\ Stale(sec[n]) # {}
        /\ Len(sec[n].ordering) = NumKeys
        /\ \E i \in 1 .. (NumKeys - 1) : sec[n].ordering[i].key < sec[n].ordering[i + 1].key

\* C8: a section is created with the persisted sequence when there is one and
\* with the identifiers of its list, in list order, when there is none;
\* either way no entry is draggable and no drag is in progress.
C8_Initialization ==
    \A n \in DOMAIN sec :
        ~sec[n].mounted =>
            LET a     == sec[n].ordering
                saved == cookies[order_cookie(n)]
                seed  == IF saved.present
                         THEN saved.value
                         ELSE [i \in 1 .. Len(sec[n].list) |-> sec[n].list[i].key]
            IN  /\ [i \in 1 .. Len(a) |-> a[i].key] = seed
                /\ \A i \in 1 .. Len(a) : a[i].draggable = FALSE
                /\ sec[n].dragging = Null

C8_Witness ==
    \E n \in DOMAIN sec :
        /\ ~sec[n].mounted
        /\ cookies[order_cookie(n)].present
        /\ Len(sec[n].ordering) >= 2
        /\ Len(sec[n].list) >= 2
        /\ sec[n].ordering[1].key # sec[n].list[1].key

\* C9: no identifier occurs twice in a section's store, in any reachable state.
C9_UniqueIdentifiers ==
    \A n \in DOMAIN sec : NoDuplicates(sec[n].ordering)

C9_Witness ==
    \E n \in DOMAIN sec :
        /\ last \in Moved
        /\ Len(sec[n].ordering) = NumKeys
        /\ Len(sec[n].list) = 1

---------------------------------------------------------------------------
(* Filter *)

Lowered(str) ==
    [i \in 1 .. Len(str) |->
        CASE str[i] = "A" -> "a" [] str[i] = "B" -> "b" [] OTHER -> str[i]]

Substring(word, str) ==
    \E i \in 1 .. (Len(str) + 1) :
        /\ i + Len(word) - 1 <= Len(str)
        /\ \A j \in 1 .. Len(word) : str[i + j - 1] = word[j]

Passes(item, filter) ==
    /\ filter.label = NoLabel \/ filter.label \in item.labels
    /\ \A w \in 1 .. Len(filter.words) :
          Substring(filter.words[w], Lowered(item.description))

\* C10: an item is in the filtered result iff the filter's label is unset or
\* among the item's labels, and every required word is a substring of its
\* lowercased description; the result keeps the upstream order; searching
\* first and filtering by label second gives the same result.
C10_FilterConjunctive ==
    filtered.rendered =>
        LET list  == props.list
            value == filtered.value
            ByLabel(item)  == LabelPass(item, props.filter)
            BySearch(item) == SearchPass(item, props.filter)
        IN  /\ \A i \in 1 .. Len(list) :
                  (\E j \in 1 .. Len(value) : value[j] = list[i])
                      <=> Passes(list[i], props.filter)
            /\ \A j \in 1 .. Len(value) : \E i \in 1 .. Len(list) : list[i] = value[j]
            /\ \A i, j \in 1 .. Len(value) :
                  i < j => Pos(list, value[i].key) < Pos(list, value[j].key)
            /\ SelectSeq(SelectSeq(list, BySearch), ByLabel) = value

C10_Witness ==
    /\ filtered.rendered
    /\ props.filter.label # NoLabel
    /\ Len(props.filter.words) >= 1
    /\ Len(props.list) >= 2
    /\ filtered.value = <<props.list[2]>>
    /\ props.filter.label \in props.list[1].labels

---------------------------------------------------------------------------
(* Drag session *)

Active(s) == s.dragging # Null

FlagOf(a, k) == a[Pos(a, k)].draggable

\* C11: once a drag has started on row id, whatever integer id is (0
\* included), a drag-enter on another rendered row moves id to the position
\* that row held before the event; without an active drag a drag-enter
\* changes nothing.
C11_LiveReindexing ==
    [][\A n \in DOMAIN sec : \A k \in Keys :
          onDragEnter(n, k) =>
              LET a  == sec[n].ordering
                  id == sec[n].dragging
              IN  IF Active(sec[n]) /\ k # id
                  THEN Pos(sec'[n].ordering, id) = Pos(a, k)
                  ELSE sec'[n].ordering = a]_vars

\* C12 as claimed: a drag-end on the dragged row leaves no active drag and
\* the row's flag false; during a drag, every step that is not a
\* repositioning drag-enter leaves the identifier sequence as it was.
C12_DragEndSameSequence ==
    [][\A n \in DOMAIN sec :
          LET a  == sec[n].ordering
              id == sec[n].dragging
          IN  /\ (Active(sec[n]) /\ onDragEnd(n, id)) =>
                    /\ ~Active(sec'[n])
                    /\ ~FlagOf(sec'[n].ordering, id)
              /\ (Active(sec[n]) /\ last' \notin Moved) =>
                    MapKeys(sec'[n].ordering) = MapKeys(a)]_vars

\* C12: a drag-end on the dragged row leaves no active drag and the row's
\* flag false; during a drag, a step that is not a repositioning drag-enter
\* leaves the identifier sequence as it was, except that a reconcile may
\* append the identifiers of items that arrived meanwhile.
C12_DragEndIdle ==
    [][\A n \in DOMAIN sec :
          LET a  == sec[n].ordering
              r  == sec'[n].ordering
              id == sec[n].dragging
          IN  /\ (Active(sec[n]) /\ onDragEnd(n, id)) =>
                    /\ ~Active(sec'[n])
                    /\ ~FlagOf(r, id)
                    /\ MapKeys(r) = MapKeys(a)
              /\ (Active(sec[n]) /\ last' \notin Moved) =>
                    /\ Len(r) >= Len(a)
                    /\ SubSeq(MapKeys(r), 1, Len(a)) = MapKeys(a)
                    /\ last' \notin Reconciled => Len(r) = Len(a)]_vars

C12_Witness ==
    \E n \in DOMAIN sec :
        /\ last = "onDragEnd"
        /\ ~Active(sec[n])
        /\ Len(sec[n].ordering) = NumKeys
        /\ Draggable(sec[n]) = {}
        /\ Stale(sec[n]) = {}

\* C13: while a drag is active the drag-end handler of the dragged row can
\* run, also after the dragged item has left the section's list, so that the
\* session ends with no active drag and the item's flag false.
C13_DragEndAfterDisappearance ==
    \A n \in DOMAIN sec :
        (sec[n].mounted /\ Active(sec[n])) => ENABLED onDragEnd(n, sec[n].dragging)

---------------------------------------------------------------------------
(* Reload *)

\* C14: a section destroyed and re-created from the slot its previous
\* instance wrote, with the same current items, has the identifier sequence
\* and the rendered row order the previous instance had when it was
\* destroyed, and its first reconciliation keeps both.
C14_OrderSurvivesReload ==
    [][\A n \in DOMAIN sec :
          LET SameOrder ==
                  /\ sec'[n].list = sec[n].list
                  /\ MapKeys(sec'[n].ordering) = MapKeys(sec[n].ordering)
                  /\ MapKeys(Rows(sec'[n])) = MapKeys(Rows(sec[n]))
          IN  /\ Reload(n) => SameOrder
              /\ (last = "reload" /\ MountEffects(n)) =>
                     SameOrder /\ last' = "mount"]_vars

C14_Witness ==
    \E n \in DOMAIN sec :
        /\ last = "reload"
        /\ Stale(sec[n]) # {}
        /\ Len(sec[n].list) >= 2
        /\ MapKeys(Rows(sec[n])) # MapKeys(sec[n].list)
        /\ cookies[order_cookie(n)] = Present(MapKeys(sec[n].ordering))

---------------------------------------------------------------------------
(* Rendered rows *)

\* C15: once reconciliation has run, the rendered rows are the Order Store
\* entries of the current items and no others: every current item has
\* exactly one row, a stale identifier has none, each row is an entry of the
\* store, and the rows stand in Order Store order.
C15_RowsAreJoin ==
    \A n \in DOMAIN sec :
        sec[n].mounted =>
            LET s    == sec[n]
                rows == Rows(s)
            IN  /\ \A i \in 1 .. Len(s.list) :
                       Cardinality({j \in 1 .. Len(rows) : rows[j].key = s.list[i].key}) = 1
                /\ Len(rows) = Len(s.list)
                /\ \A k \in Stale(s) : k \notin KeySet(rows)
                /\ \A j \in 1 .. Len(rows) : rows[j] = s.ordering[Pos(s.ordering, rows[j].key)]
                /\ \A i, j \in 1 .. Len(rows) :
                       i < j => Pos(s.ordering, rows[i].key) < Pos(s.ordering, rows[j].key)

C15_Witness ==
    \E n \in DOMAIN sec :
        LET s == sec[n]
        IN  /\ s.mounted
            /\ Len(s.list) >= 2
            /\ Stale(s) # {}
            /\ MapKeys(Rows(s)) # MapKeys(s.list)
            /\ Pos(s.ordering, Rows(s)[2].key) > Pos(s.ordering, Rows(s)[1].key) + 1

---------------------------------------------------------------------------
(* The two sections *)

RowEvent(n, k) ==
    \/ onDragDown(n, k)
    \/ onDragUp(n, k)
    \/ onDragStart(n, k)
    \/ onDragEnd(n, k)
    \/ onDragEnter(n, k)

\* each filtered item is in the list of exactly one section, the one of its
\* completion flag
Partitioned ==
    filtered.rendered =>
        /\ DOMAIN sec = SectionNames
        /\ \A i \in 1 .. Len(filtered.value) :
               LET item == filtered.value[i]
                   home == IF item.status THEN "completed" ELSE "in-progress"
               IN  \A n \in SectionNames :
                       Cardinality({j \in 1 .. Len(sec[n].list) : sec[n].list[j] = item})
                           = IF n = home THEN 1 ELSE 0
        /\ \A n \in SectionNames : KeySet(sec[n].list) \subseteq KeySet(filtered.value)

\* C16: the filtered items are partitioned by completion flag between the two
\* sections, which persist under distinct keys, and a pointer or drag event
\* handled by one section leaves the other section's entries, flags, drag
\* session and persisted slot unchanged.
C16_SectionsIndependent ==
    /\ []Partitioned
    /\ [](\A n, m \in SectionNames : n # m => order_cookie(n) # order_cookie(m))
    /\ [][\A n, m \in DOMAIN sec :
             (/\ n # m
              /\ \/ sec'[m] # sec[m]
                 \/ cookies'[order_cookie(m)] # cookies[order_cookie(m)])
                 => ~ \E k \in Keys : RowEvent(n, k)]_vars

C16_Witness ==
    /\ last \in Moved
    /\ \E n, m \in DOMAIN sec :
        /\ n # m
        /\ sec[n].list # <<>>
        /\ cookies[order_cookie(n)] = Present(MapKeys(sec[n].ordering))
        /\ MapKeys(sec[n].ordering) # MapKeys(sec[n].list)
        /\ sec[m].mounted
        /\ sec[m].list # <<>>
        /\ cookies[order_cookie(m)] = Present(MapKeys(sec[m].list))

---------------------------------------------------------------------------
(* Unknown identifiers *)

\* C17: for an identifier that has no entry in the Order Store,
\* setDraggable leaves the entries (identifiers, length, every flag)
\* unchanged, whatever the value, and the position lookup answers "not
\* found"; both are defined on such an identifier.
C17_UnknownIdIsNoOp ==
    \A n \in DOMAIN sec :
        LET a == sec[n].ordering
        IN  \A id \in Keys \ KeySet(a) :
                /\ \A v \in BOOLEAN : setDraggable(a, id, v) = a
                /\ getOrder(a, id) = NotFound

C17_Witness ==
    \E n \in DOMAIN sec :
        LET a == sec[n].ordering
        IN  /\ Keys \ KeySet(a) # {}
            /\ Len(a) >= 2
            /\ a[Len(a)].draggable
            /\ ~a[1].draggable
            /\ sec[n].mounted

---------------------------------------------------------------------------
(* Arguments of setOrder *)

\* C18: in every reachable state the identifier of an active drag has an
\* entry in the section's Order Store, and so has every rendered row, so
\* that neither index computed for a move on drag-enter is -1.
C18_MoveArgumentsFound ==
    \A n \in DOMAIN sec :
        LET s == sec[n]
        IN  /\ Active(s) => /\ s.dragging \in KeySet(s.ordering)
                            /\ FindIndex(s.ordering, s.dragging) # NotFound
            /\ \A k \in RowKeys(s) : getOrder(s.ordering, k) # NotFound
            /\ \A i \in 1 .. Len(s.ordering) : s.ordering[i] # Undefined
            /\ NoDuplicates(s.ordering)

C18_Witness ==
    \E n \in DOMAIN sec :
        LET s == sec[n]
        IN  /\ last \in Moved
            /\ Active(s)
            /\ s.dragging \in Stale(s)
            /\ s.list # <<>>

---------------------------------------------------------------------------
(* Relative order *)

\* the identifiers of r that a holds too, in r's order
Remembered(a, r) ==
    LET ks == KeySet(a)
        Held(k) == k \in ks
    IN  SelectSeq(MapKeys(r), Held)

\* C19: two identifiers that are in a section's Order Store stay in it, and
\* their relative order changes only in a drag-enter step taken while a drag
\* is active in that section that moves the dragged entry; reconciliation
\* on any change of the list, pointer-down and pointer-up, drag-start,
\* drag-end and re-creation from the cookie keep it.
C19_RelativeOrderStable ==
    [][\A n \in DOMAIN sec :
          LET a == sec[n].ordering
              r == sec'[n].ordering
          IN  /\ KeySet(a) \subseteq KeySet(r)
              /\ Remembered(a, r) # MapKeys(a) =>
                     /\ Active(sec[n])
                     /\ last' \in Moved
                     /\ \E k \in RowKeys(sec[n]) : onDragEnter(n, k)]_vars

C19_Witness ==
    \E n \in DOMAIN sec :
        LET s == sec[n]
        IN  /\ last = "render"
            /\ Len(s.list) = NumKeys
            /\ MapKeys(s.ordering) # MapKeys(s.list)
            /\ ~Active(s)

====
